---- MODULE Spec2Model ----
(***************************************************************************)
(* A model of agents/models/openrouter_provider.py: OpenRouterProvider, a  *)
(* subclass of OpenAIProvider that fixes the gateway endpoint, forces the  *)
(* chat-completions format, injects two attribution headers into the       *)
(* lazily created client and resolves model names.                         *)
(*                                                                         *)
(* Python values: an optional value is None (the empty tuple) or Some(v)   *)
(* (the one-element tuple); a dict is a function on its set of keys; an    *)
(* object reference is an index into the heap `clients`.                   *)
(***************************************************************************)
EXTENDS Naturals, Sequences, FiniteSets

VARIABLES
    providers,     \* provider id -> the fields of the OpenRouterProvider object
    clients,       \* the heap of AsyncOpenAI objects, in order of creation
    ret,           \* the last call made on a provider: its argument, what it returned, and
                   \* the returned handle's headers before and after the call
    ctor,          \* ghost: the arguments each provider was constructed with
    created,       \* ghost: how many AsyncOpenAI objects each provider's calls created
    first,         \* ghost: the handle and headers returned by each provider's first acquisition
    touched        \* ghost: header key -> the value another holder of the handle last wrote

vars == <<providers, clients, ret, ctor, created, first, touched>>

None == <<>>
Some(v) == <<v>>

\* Python truthiness of an optional string: None and "" are falsy.
Truthy(o) == o # None /\ o[1] # ""

\* d[k] = v on a dict.
Put(d, k, v) == [x \in (DOMAIN d) \cup {k} |-> IF x = k THEN v ELSE d[x]]

MaxClients == 3

\* A default without the vendor prefix.
DEFAULT_MODEL_bare == "gpt-4o"

DEFAULT_MODEL == "openai/gpt-4o"

OPENROUTER_BASE_URL == "https://openrouter.ai/api/v1"

OPENAI_BASE_URL == "https://api.openai.com/v1"

REFERER_KEY == "HTTP-Referer"

TITLE_KEY == "X-Title"

OTHER_KEY == "User-Agent"

\* The values the operations are called with.
ApiKeys == {None, Some("sk-or-1")}

Referers == {None, Some(""), Some("https://a.example"), Some("https://b.example")}

Titles == {None, Some(""), Some("App A"), Some("App B")}

Flags == {None, Some(TRUE), Some(FALSE)}

ModelNames == {None, Some(""), Some("gpt-4o"), Some("anthropic/claude-3-opus")}

OutOfBandValues == {"set-by-caller"}

----------------------------------------------------------------------------
(* The collaborators: the protocol client and the base provider.           *)

\* AsyncOpenAI(api_key=..., base_url=...): a new client object. An absent
\* base_url is the library's default endpoint.
AsyncOpenAI(api_key, base_url) ==
    [ api_key         |-> api_key,
      base_url        |-> IF base_url = None THEN OPENAI_BASE_URL ELSE base_url[1],
      default_headers |-> [k \in {OTHER_KEY} |-> "AsyncOpenAI/Python"] ]

\* OpenAIProvider.__init__(api_key=, base_url=, use_responses=)
OpenAIProvider__init__(api_key, base_url, use_responses) ==
    [ _client          |-> None,
      _stored_api_key  |-> api_key,
      _stored_base_url |-> base_url,
      _use_responses   |-> use_responses ]

\* OpenAIProvider._get_client: the client is created on first use and cached.
OpenAIProvider_get_client(self, heap) ==
    IF self._client = None
    THEN LET new == AsyncOpenAI(self._stored_api_key, self._stored_base_url)
         IN  [ self   |-> [self EXCEPT !._client = Some(Len(heap) + 1)],
               heap   |-> Append(heap, new),
               client |-> Len(heap) + 1 ]
    ELSE [ self |-> self, heap |-> heap, client |-> self._client[1] ]

\* OpenAIChatCompletionsModel(model=, openai_client=)
OpenAIChatCompletionsModel(model, openai_client) ==
    [ kind |-> "OpenAIChatCompletionsModel", model |-> model, openai_client |-> openai_client ]

----------------------------------------------------------------------------
(* OpenRouterProvider                                                      *)

\* __init__ handing the caller's use_responses to the base class.
__init__passing_flag(api_key, http_referer, site_title, use_responses) ==
    [ base          |-> OpenAIProvider__init__(api_key, Some(OPENROUTER_BASE_URL), use_responses),
      _http_referer |-> http_referer,
      _site_title   |-> site_title ]

\* __init__ without the base_url argument.
__init__without_url(api_key, http_referer, site_title, use_responses) ==
    [ base          |-> OpenAIProvider__init__(api_key, None, Some(FALSE)),
      _http_referer |-> http_referer,
      _site_title   |-> site_title ]

\* __init__(api_key=, http_referer=, site_title=, use_responses=)
__init__(api_key, http_referer, site_title, use_responses) ==
    [ base          |-> OpenAIProvider__init__(api_key, Some(OPENROUTER_BASE_URL), Some(FALSE)),
      _http_referer |-> http_referer,
      _site_title   |-> site_title ]

\* The header written without the membership test.
AddHeader_overwrite(headers, key, value) ==
    IF Truthy(value) THEN Put(headers, key, value[1]) ELSE headers

\* The header written to a copy of the mapping, which is then dropped.
AddHeader_lost(headers, key, value) == headers

\* `value is not None` in place of the truthiness test.
AddHeader_notNone(headers, key, value) ==
    IF value # None /\ key \notin DOMAIN headers
    THEN Put(headers, key, value[1])
    ELSE headers

\* The mapping replaced by one that holds the new header alone.
AddHeader_replaceAll(headers, key, value) ==
    IF Truthy(value) /\ key \notin DOMAIN headers
    THEN [k \in {key} |-> value[1]]
    ELSE headers

\* if value and key not in headers: headers[key] = value
AddHeader(headers, key, value) ==
    IF Truthy(value) /\ key \notin DOMAIN headers
    THEN Put(headers, key, value[1])
    ELSE headers

\* _get_client() building a client of its own on every call.
_get_client_nocache(self, heap) ==
    LET b  == OpenAIProvider_get_client([self.base EXCEPT !._client = None], heap)
        h0 == b.heap[b.client].default_headers
        h1 == AddHeader(h0, REFERER_KEY, self._http_referer)
        h2 == AddHeader(h1, TITLE_KEY, self._site_title)
    IN  [ self   |-> [self EXCEPT !.base = b.self],
          heap   |-> [b.heap EXCEPT ![b.client].default_headers = h2],
          client |-> b.client ]

\* _get_client() caching the client at module level: every provider uses the
\* first client any provider created.
_get_client_shared(self, heap) ==
    LET b  == IF heap = <<>>
              THEN OpenAIProvider_get_client(self.base, heap)
              ELSE [ self |-> [self.base EXCEPT !._client = Some(1)], heap |-> heap, client |-> 1 ]
        h0 == b.heap[b.client].default_headers
        h1 == AddHeader(h0, REFERER_KEY, self._http_referer)
        h2 == AddHeader(h1, TITLE_KEY, self._site_title)
    IN  [ self   |-> [self EXCEPT !.base = b.self],
          heap   |-> [b.heap EXCEPT ![b.client].default_headers = h2],
          client |-> b.client ]

\* _get_client(): the base provider's client, with the attribution headers added.
_get_client(self, heap) ==
    LET b  == OpenAIProvider_get_client(self.base, heap)
        h0 == b.heap[b.client].default_headers
        h1 == AddHeader(h0, REFERER_KEY, self._http_referer)
        h2 == AddHeader(h1, TITLE_KEY, self._site_title)
    IN  [ self   |-> [self EXCEPT !.base = b.self],
          heap   |-> [b.heap EXCEPT ![b.client].default_headers = h2],
          client |-> b.client ]

\* get_model with `if not model_name` in place of `if model_name is None`.
get_model_falsy(self, heap, model_name) ==
    LET name == IF ~Truthy(model_name) THEN DEFAULT_MODEL ELSE model_name[1]
        c    == _get_client(self, heap)
    IN  [ self   |-> c.self,
          heap   |-> c.heap,
          client |-> c.client,
          model  |-> OpenAIChatCompletionsModel(name, c.client) ]

\* get_model(model_name)
get_model(self, heap, model_name) ==
    LET name == IF model_name = None THEN DEFAULT_MODEL ELSE model_name[1]
        c    == _get_client(self, heap)
    IN  [ self   |-> c.self,
          heap   |-> c.heap,
          client |-> c.client,
          model  |-> OpenAIChatCompletionsModel(name, c.client) ]

----------------------------------------------------------------------------
(* The state machine                                                       *)

Args == [ api_key : ApiKeys, http_referer : Referers, site_title : Titles, use_responses : Flags ]

\* The arguments of the two-provider runs: two providers that differ in
\* their attribution values.
PairArgs ==
    [ api_key       : {Some("sk-or-1")},
      http_referer  : {Some("https://a.example"), Some("https://b.example")},
      site_title    : {None, Some("App A"), Some("App B")},
      use_responses : {None} ]

PairModelNames == {None, Some("anthropic/claude-3-opus")}

Construct(a) == __init__(a.api_key, a.http_referer, a.site_title, a.use_responses)

EmptyDict == [k \in {} |-> ""]

NoCall ==
    [ op |-> "none", self |-> 0, arg |-> None, client |-> 0, model |-> None,
      before |-> None, after |-> EmptyDict ]

InitWith(P, A) ==
    /\ ctor \in [P -> A]
    /\ providers = [p \in P |-> Construct(ctor[p])]
    /\ clients = <<>>
    /\ ret = NoCall
    /\ created = [p \in P |-> 0]
    /\ first = [p \in P |-> None]
    /\ touched = [p \in P |-> EmptyDict]

\* One provider, constructed with any arguments.
Init == InitWith({1}, Args)

\* Two providers.
InitPair == InitWith({1, 2}, PairArgs)

Providers == DOMAIN providers

\* The headers of the handle provider p holds, None before it holds one.
HandleHeaders(p) ==
    IF providers[p].base._client = None
    THEN None
    ELSE Some(clients[providers[p].base._client[1]].default_headers)

\* What a call on provider p that returned r leaves behind.
Returned(p, r, op, arg, model) ==
    /\ Len(r.heap) <= MaxClients
    /\ providers' = [providers EXCEPT ![p] = r.self]
    /\ clients' = r.heap
    /\ ret' = [ op |-> op, self |-> p, arg |-> arg, client |-> r.client, model |-> model,
                before |-> HandleHeaders(p), after |-> r.heap[r.client].default_headers ]
    /\ created' = [created EXCEPT ![p] = @ + (Len(r.heap) - Len(clients))]
    /\ first' = IF first[p] = None
                THEN [first EXCEPT ![p] = Some([ client  |-> r.client,
                                                 headers |-> r.heap[r.client].default_headers ])]
                ELSE first
    /\ UNCHANGED <<ctor, touched>>

GetClient(p) ==
    LET r == _get_client(providers[p], clients)
    IN  Returned(p, r, "_get_client", None, None)

GetModel(p, model_name) ==
    LET r == get_model(providers[p], clients, model_name)
    IN  Returned(p, r, "get_model", model_name, Some(r.model))

\* Another holder of provider p's client writes one of its default headers.
OutOfBand(p, key, value) ==
    /\ providers[p].base._client # None
    /\ LET id == providers[p].base._client[1]
       IN  clients' = [clients EXCEPT ![id].default_headers = Put(@, key, value)]
    /\ touched' = [touched EXCEPT ![p] = Put(@, key, value)]
    /\ UNCHANGED <<providers, ret, ctor, created, first>>

Next ==
    \/ \E p \in Providers : GetClient(p)
    \/ \E p \in Providers, n \in ModelNames : GetModel(p, n)
    \/ \E p \in Providers, k \in {REFERER_KEY, TITLE_KEY, OTHER_KEY}, v \in OutOfBandValues :
          OutOfBand(p, k, v)

Spec == Init /\ [][Next]_vars

\* The two-provider runs: the same operations, with fewer argument values.
NextPair ==
    \/ \E p \in Providers : GetClient(p)
    \/ \E p \in Providers, n \in PairModelNames : GetModel(p, n)
    \/ \E p \in Providers, k \in {REFERER_KEY, TITLE_KEY}, v \in OutOfBandValues :
          OutOfBand(p, k, v)

SpecPair == InitPair /\ [][NextPair]_vars

----------------------------------------------------------------------------
(* Vocabulary of the properties                                            *)

AttributionKeys == {REFERER_KEY, TITLE_KEY}

\* The value provider p was constructed with for the header `key`.
Configured(p, key) ==
    IF key = REFERER_KEY THEN ctor[p].http_referer ELSE ctor[p].site_title

\* A call has been made; ret describes the last one.
Called == ret.op # "none"

\* The last call found the handle already there (it was not the first acquisition).
LaterCall == Called /\ ret.before # None

\* The handle the last call returned held `key` when the call began.
BeforeHas(key) == ret.before # None /\ key \in DOMAIN ret.before[1]

Acquired(p) == first[p] # None

\* The headers now on the handle of a provider that has acquired one.
Headers(p) == clients[providers[p].base._client[1]].default_headers

\* The headers of a client as the library creates it.
FreshHeaders(p) ==
    AsyncOpenAI(providers[p].base._stored_api_key, providers[p].base._stored_base_url).default_headers

----------------------------------------------------------------------------
(* C1: with a non-empty referer (title) configured, an acquisition on a    *)
(* handle that did not hold HTTP-Referer (X-Title) leaves the header equal *)
(* to the configured value; a later acquisition that finds it equal leaves *)
(* it equal; and as long as no other holder wrote the key, the handle of a *)
(* provider that has acquired holds the configured value.                  *)
C1_HeaderInjected ==
    /\ Called =>
         \A k \in AttributionKeys :
            LET v == Configured(ret.self, k)
            IN  /\ (Truthy(v) /\ ~BeforeHas(k)) =>
                      (k \in DOMAIN ret.after /\ ret.after[k] = v[1])
                /\ (Truthy(v) /\ BeforeHas(k) /\ ret.before[1][k] = v[1]) =>
                      (k \in DOMAIN ret.after /\ ret.after[k] = v[1])
    /\ \A p \in Providers : Acquired(p) =>
         \A k \in AttributionKeys :
            (Truthy(Configured(p, k)) /\ k \notin DOMAIN touched[p]) =>
               (k \in DOMAIN Headers(p) /\ Headers(p)[k] = Configured(p, k)[1])

\* A second or later acquisition on a provider with both values configured,
\* both headers read back as configured.
C1_Witness ==
    /\ LaterCall
    /\ touched[ret.self] = EmptyDict
    /\ \A k \in AttributionKeys :
          /\ Truthy(Configured(ret.self, k))
          /\ k \in DOMAIN ret.after
          /\ ret.after[k] = Configured(ret.self, k)[1]
          /\ Headers(ret.self)[k] = Configured(ret.self, k)[1]

(* C2: an attribution header the handle already holds is left as it is by  *)
(* every acquisition, and the value another holder wrote is the value on   *)
(* the handle, whatever the provider is configured with.                   *)
C2_ExistingHeaderKept ==
    /\ Called =>
         \A k \in AttributionKeys :
            BeforeHas(k) => (k \in DOMAIN ret.after /\ ret.after[k] = ret.before[1][k])
    /\ \A p \in Providers :
         \A k \in AttributionKeys \cap DOMAIN touched[p] :
            k \in DOMAIN Headers(p) /\ Headers(p)[k] = touched[p][k]

\* An acquisition that found HTTP-Referer written by another holder, on a
\* provider configured with a different non-empty referer.
C2_Witness ==
    /\ LaterCall
    /\ BeforeHas(REFERER_KEY)
    /\ ret.before[1][REFERER_KEY] \in OutOfBandValues
    /\ Truthy(Configured(ret.self, REFERER_KEY))
    /\ Configured(ret.self, REFERER_KEY)[1] # ret.before[1][REFERER_KEY]
    /\ ret.after[REFERER_KEY] = ret.before[1][REFERER_KEY]
    /\ Headers(ret.self)[REFERER_KEY] = ret.before[1][REFERER_KEY]

(* C3: a provider's calls create at most one client; every call returns    *)
(* the client of the first call, and every model is bound to it; a call    *)
(* after the first leaves the handle's headers as it found them; and with  *)
(* no write by another holder the headers are those after the first call.  *)
C3_AcquisitionIdempotent ==
    /\ \A p \in Providers :
          /\ created[p] <= 1
          /\ Acquired(p) <=> providers[p].base._client # None
          /\ Acquired(p) => providers[p].base._client = Some(first[p][1].client)
          /\ (Acquired(p) /\ touched[p] = EmptyDict) => Headers(p) = first[p][1].headers
    /\ Called =>
          /\ Acquired(ret.self)
          /\ ret.client = first[ret.self][1].client
          /\ ret.model # None => ret.model[1].openai_client = first[ret.self][1].client
    /\ LaterCall => ret.after = ret.before[1]

\* A get_model call after the first acquisition, on a provider with a referer.
C3_Witness ==
    /\ LaterCall
    /\ ret.op = "get_model"
    /\ Truthy(Configured(ret.self, REFERER_KEY))
    /\ touched[ret.self] = EmptyDict
    /\ created[ret.self] = 1
    /\ REFERER_KEY \in DOMAIN ret.after
    /\ ret.after = first[ret.self][1].headers

(* C4: with the referer (title) None or empty, no acquisition adds         *)
(* HTTP-Referer (X-Title): after a call the handle holds the key only if   *)
(* it held it before, each key on its own; and the call returns a client.  *)
C4_AbsentNeverAdded ==
    /\ Called =>
          /\ ret.client \in DOMAIN clients
          /\ \A k \in AttributionKeys :
                ~Truthy(Configured(ret.self, k)) => (k \in DOMAIN ret.after <=> BeforeHas(k))
    /\ \A p \in Providers : Acquired(p) =>
         \A k \in AttributionKeys :
            (~Truthy(Configured(p, k)) /\ k \notin DOMAIN touched[p]) => k \notin DOMAIN Headers(p)

\* An empty referer beside a configured title: the title is set, the referer is not.
C4_Witness ==
    /\ Called
    /\ Configured(ret.self, REFERER_KEY) = Some("")
    /\ Truthy(Configured(ret.self, TITLE_KEY))
    /\ REFERER_KEY \notin DOMAIN ret.after
    /\ TITLE_KEY \in DOMAIN ret.after
    /\ REFERER_KEY \notin DOMAIN Headers(ret.self)

(* C5: get_model(None) returns a model named "openai/gpt-4o".              *)
C5_DefaultModel ==
    (ret.op = "get_model" /\ ret.arg = None) =>
       (ret.model # None /\ ret.model[1].model = "openai/gpt-4o")

\* get_model(None) on a provider whose client already existed.
C5_Witness ==
    /\ LaterCall
    /\ ret.op = "get_model"
    /\ ret.arg = None
    /\ ret.model[1].model = "openai/gpt-4o"

(* C6: get_model with a name that is a string returns a model bound to     *)
(* exactly that string, and the call is possible for every name.           *)
C6_ExplicitModel ==
    /\ (ret.op = "get_model" /\ ret.arg # None) =>
          (ret.model # None /\ ret.model[1].model = ret.arg[1])
    /\ \A p \in Providers, n \in ModelNames : ENABLED GetModel(p, n)

\* get_model("") returned a model named "".
C6_Witness ==
    /\ ret.op = "get_model"
    /\ ret.arg = Some("")
    /\ ret.model[1].model = ""

(* C7: the provider object is the one any other use_responses value would  *)
(* have built, its format selector is False (chat completions), and every  *)
(* model returned is a chat-completions model.                             *)
C7_LegacyFlagIgnored ==
    /\ \A p \in Providers :
          /\ providers[p].base._use_responses = Some(FALSE)
          /\ \A f \in Flags :
                [providers[p] EXCEPT !.base._client = None] =
                   Construct([ctor[p] EXCEPT !.use_responses = f])
    /\ ret.model # None => ret.model[1].kind = "OpenAIChatCompletionsModel"

\* A model obtained from a provider constructed with use_responses=True.
C7_Witness ==
    /\ ret.op = "get_model"
    /\ ctor[ret.self].use_responses = Some(TRUE)
    /\ ret.model[1].kind = "OpenAIChatCompletionsModel"

(* C8: every client a provider holds or returns has the base endpoint      *)
(* https://openrouter.ai/api/v1.                                           *)
C8_BaseEndpoint ==
    /\ \A p \in Providers :
          providers[p].base._client # None =>
             clients[providers[p].base._client[1]].base_url = "https://openrouter.ai/api/v1"
    /\ Called => clients[ret.client].base_url = "https://openrouter.ai/api/v1"

\* A later call on a provider built with no api_key, use_responses=True,
\* after another holder wrote a header.
C8_Witness ==
    /\ LaterCall
    /\ ctor[ret.self].api_key = None
    /\ ctor[ret.self].use_responses = Some(TRUE)
    /\ touched[ret.self] # EmptyDict
    /\ clients[ret.client].base_url = "https://openrouter.ai/api/v1"

(* C9: two providers never hold the same client, and on each provider's    *)
(* handle every attribution header no other holder wrote is the one that   *)
(* provider is configured with (absent if it is configured with none).     *)
C9_ProvidersIndependent ==
    /\ \A p \in Providers, q \in Providers :
          (p # q /\ providers[p].base._client # None) =>
             providers[p].base._client # providers[q].base._client
    /\ \A p \in Providers : Acquired(p) =>
         \A k \in AttributionKeys \ DOMAIN touched[p] :
            IF Truthy(Configured(p, k))
            THEN k \in DOMAIN Headers(p) /\ Headers(p)[k] = Configured(p, k)[1]
            ELSE k \notin DOMAIN Headers(p)

\* Two providers with different referers, each having acquired its client.
C9_Witness ==
    /\ Cardinality(Providers) = 2
    /\ \A p \in Providers : Acquired(p) /\ touched[p] = EmptyDict
    /\ Configured(1, REFERER_KEY) # Configured(2, REFERER_KEY)
    /\ Configured(1, TITLE_KEY) # None
    /\ Configured(2, TITLE_KEY) = None
    /\ \A p \in Providers : Headers(p)[REFERER_KEY] = Configured(p, REFERER_KEY)[1]
    /\ TITLE_KEY \notin DOMAIN Headers(2)
    /\ ret.op = "get_model"

(* C10: a call removes no header and changes none, adds no key other than  *)
(* HTTP-Referer and X-Title, leaves the headers the client was created     *)
(* with, and leaves the provider as it was constructed (but for the        *)
(* cached client).                                                         *)
C10_Frame ==
    /\ LaterCall =>
          /\ \A k \in DOMAIN ret.before[1] :
                k \in DOMAIN ret.after /\ ret.after[k] = ret.before[1][k]
          /\ (DOMAIN ret.after) \ (DOMAIN ret.before[1]) \subseteq AttributionKeys
    /\ (Called /\ ret.before = None) =>
          /\ \A k \in DOMAIN FreshHeaders(ret.self) :
                k \in DOMAIN ret.after /\ ret.after[k] = FreshHeaders(ret.self)[k]
          /\ (DOMAIN ret.after) \ (DOMAIN FreshHeaders(ret.self)) \subseteq AttributionKeys
    /\ \A p \in Providers :
          /\ providers[p]._http_referer = ctor[p].http_referer
          /\ providers[p]._site_title = ctor[p].site_title
          /\ [providers[p] EXCEPT !.base._client = None] = Construct(ctor[p])

\* A later call on a handle whose User-Agent another holder had rewritten.
C10_Witness ==
    /\ LaterCall
    /\ OTHER_KEY \in DOMAIN touched[ret.self]
    /\ ret.after[OTHER_KEY] = touched[ret.self][OTHER_KEY]
    /\ Truthy(Configured(ret.self, REFERER_KEY))
    /\ REFERER_KEY \in DOMAIN ret.after

====
